---- MODULE Spec2Model ----
(***************************************************************************)
(* The Excel Analyzer page (GEMScan.py and its two later drafts,           *)
(* GEMScan_FULL_UPDATED.py and GEMScan_FINAL_GUARANTEED_FIXED.py).         *)
(*                                                                         *)
(* The page is a script that is run top to bottom once per user            *)
(* interaction.  The state is the uploaded workbook, the widget values     *)
(* kept between runs, and what the last run of the script produced.  Each  *)
(* action is one interaction followed by the whole run it triggers.        *)
(*                                                                         *)
(* The drafts are read with the block structure their indentation shows.   *)
(*                                                                         *)
(* Held at their defaults: the sheet selectbox (first sheet), the sort     *)
(* column and order (first column, ascending), the search boxes and the    *)
(* unique-values toggles of the later drafts, and the chart options other  *)
(* than the group column.  A widget draws with whatever bounds it is       *)
(* given, and a chart drawn from bound data succeeds.                      *)
(***************************************************************************)
EXTENDS Integers, Sequences, FiniteSets, TLC

(***************************************************************************)
(* Bounds of the model.                                                    *)
(***************************************************************************)
MaxRows == 2

(***************************************************************************)
(* Cell values.  Numeric cells are integers; NaN is the null number.  Bad  *)
(* is a text cell in a numeric column that does not parse as a number.     *)
(* Text cells are sequences of characters; NullText is the null text cell. *)
(***************************************************************************)
NaN == -1
Bad == -2

NullText == <<"<null>">>
NanText == <<"n", "a", "n">>
Coal == <<"C", "o", "a", "l">>
Plant == <<"P", "l", "a", "n", "t">>
CoalPlant == <<"C", "o", "a", "l", " ", "P", "l", "a", "n", "t">>
An == <<"a", "n">>
G1 == <<"G", "1">>
CoalPowerPlant == <<"C", "o", "a", "l", " ", "P", "o", "w", "e", "r", " ", "P", "l", "a", "n", "t">>
GasPlant == <<"G", "a", "s", " ", "P", "l", "a", "n", "t">>
CoalMine == <<"C", "o", "a", "l", " ", "M", "i", "n", "e">>

CapCol == "Capacity (MW)"
YearCol == "Start year"
GemCol == "GEM unit/phase ID"
SpecialCols == {CapCol, YearCol, GemCol}

Variants == {"GEMScan", "FULL_UPDATED", "FINAL"}

(***************************************************************************)
(* The uploaded workbooks.  A sheet has up to MaxRows rows drawn from      *)
(* RowPool and one of the column layouts of Layouts; a cell of a column    *)
(* the layout does not have is null.  The fourth column is the sheet's    *)
(* text column, under one of the type names or as "Fuel".                  *)
(***************************************************************************)
RowPool ==
    { [cap |-> 5,   year |-> 2014, gem |-> G1,       txt |-> Coal],
      [cap |-> 100, year |-> 2016, gem |-> NullText, txt |-> CoalPlant],
      [cap |-> NaN, year |-> Bad,  gem |-> G1,       txt |-> An],
      [cap |-> 100, year |-> NaN,  gem |-> NullText, txt |-> NullText] }

Layouts ==
    { <<CapCol, YearCol, GemCol, "Plant Type">>,
      <<YearCol, GemCol, "Technology">>,
      <<CapCol, GemCol, "Type">>,
      <<CapCol, YearCol, "Fuel">>,
      <<CapCol, YearCol, GemCol>> }

Range(s) == { s[i] : i \in DOMAIN s }

IsTextCol(c) == c \notin SpecialCols

Has(columns, c) == c \in Range(columns)

HasTextCol(columns) == \E c \in Range(columns) : IsTextCol(c)

TextColOf(columns) == CHOOSE c \in Range(columns) : IsTextCol(c)

Project(layout, r) ==
    [cap  |-> IF Has(layout, CapCol) THEN r.cap ELSE NaN,
     year |-> IF Has(layout, YearCol) THEN r.year ELSE NaN,
     gem  |-> IF Has(layout, GemCol) THEN r.gem ELSE NullText,
     txt  |-> IF HasTextCol(layout) THEN r.txt ELSE NullText]

RowSeqs == UNION { [1..n -> RowPool] : n \in 0..MaxRows }

Unreadable == [readable |-> FALSE, columns |-> <<>>, rows |-> <<>>]

Workbooks ==
    { [readable |-> TRUE, columns |-> l,
       rows |-> [i \in DOMAIN rs |-> Project(l, rs[i])]] :
          l \in Layouts, rs \in RowSeqs }
    \cup {Unreadable}

(***************************************************************************)
(* Loading.  load_sample_sheet reads at most SampleSize rows and           *)
(* load_full_sheet all of them; both map the labels to strings.  The page  *)
(* then coerces "Start year" to numbers, creating the column, all null,    *)
(* when the sheet has none.                                                *)
(***************************************************************************)
SampleSize == 500

FirstRows(s, n) == SubSeq(s, 1, IF Len(s) < n THEN Len(s) ELSE n)

ToNumeric(x) == IF x = Bad THEN NaN ELSE x

load_sample_sheet(wb) == [columns |-> wb.columns, rows |-> FirstRows(wb.rows, SampleSize)]

load_full_sheet(wb) == [columns |-> wb.columns, rows |-> wb.rows]

CoerceStartYear(t) ==
    [columns |-> IF Has(t.columns, YearCol) THEN t.columns
                 ELSE Append(t.columns, YearCol),
     rows |-> [i \in DOMAIN t.rows |->
                  [t.rows[i] EXCEPT !.year = ToNumeric(@)]]]

(***************************************************************************)
(* Comparisons of pandas: a comparison with a null number is false.        *)
(***************************************************************************)
Ge(a, b) == a # NaN /\ b # NaN /\ a >= b

Le(a, b) == a # NaN /\ b # NaN /\ a <= b

NotNullNums(df, f) == { df.rows[i][f] : i \in DOMAIN df.rows } \ {NaN}

SetMin(S) == IF S = {} THEN NaN ELSE CHOOSE x \in S : \A y \in S : x <= y

SetMax(S) == IF S = {} THEN NaN ELSE CHOOSE x \in S : \A y \in S : x >= y

\* min_cap, max_cap and min_year, max_year: the defaults of the range widgets.
CapDefault(df) == <<SetMin(NotNullNums(df, "cap")), SetMax(NotNullNums(df, "cap"))>>

YearDefault(df) == <<SetMin(NotNullNums(df, "year")), SetMax(NotNullNums(df, "year"))>>

(***************************************************************************)
(* The masks of the filters: one Boolean per row of df.                    *)
(***************************************************************************)
\* The range test with the upper bound left out: what C6 rules out.
RangeMaskStrict(df, f, rng) ==
    [i \in DOMAIN df.rows |-> Ge(df.rows[i][f], rng[1]) /\ df.rows[i][f] # rng[2] /\ Le(df.rows[i][f], rng[2])]

\* (df[c] >= lo) & (df[c] <= hi)
RangeMask(df, f, rng) ==
    [i \in DOMAIN df.rows |-> Ge(df.rows[i][f], rng[1]) /\ Le(df.rows[i][f], rng[2])]

NotnaMask(df) == [i \in DOMAIN df.rows |-> df.rows[i].gem # NullText]

\* str(x) and astype(str): the text of a cell; a null cell reads "nan".
Str(x) == IF x = NullText THEN NanText ELSE x

\* opt in s: opt occurs in s as a contiguous run of characters.
Contains(s, opt) ==
    \E k \in 0..(Len(s) - Len(opt)) : \A j \in 1..Len(opt) : s[k + j] = opt[j]

\* df[column].isin(selected_options), on the cells as they are.
IsinMask(df, selected) ==
    [i \in DOMAIN df.rows |-> df.rows[i].txt # NullText /\ df.rows[i].txt \in selected]

\* df[column].astype(str).isin(selected_options), on the text of the cells.
IsinStrMask(df, selected) ==
    [i \in DOMAIN df.rows |-> Str(df.rows[i].txt) \in selected]

\* apply(lambda x: all(opt in str(x) for opt in selected_options))
AllInMask(df, selected) ==
    [i \in DOMAIN df.rows |-> \A opt \in selected : Contains(Str(df.rows[i].txt), opt)]

MatchAny == "Match ANY (OR)"
MatchAll == "Match ALL (AND)"

\* unique_values: the options of the multiselect (search and unique-only off).
unique_values(df) == { df.rows[i].txt : i \in DOMAIN df.rows } \ {NullText}

(***************************************************************************)
(* Widgets.  The widgets without a key keep their value under their own    *)
(* name; the radio and the multiselect of a text column are kept in        *)
(* st.session_state under the key the draft gives them.  A key is the      *)
(* sequence of the parts of its f-string.                                  *)
(***************************************************************************)
ColumnIndex(df, c) == CHOOSE i \in DOMAIN df.columns : df.columns[i] = c

logic_key(v, df, c) ==
    IF v = "FINAL" THEN <<"radio_", ColumnIndex(df, c) - 1, "_", c>>
    ELSE <<c, "_logic">>

multiselect_key(v, df, c) ==
    IF v = "FINAL" THEN <<"multi_", ColumnIndex(df, c) - 1, "_", c>>
    ELSE <<c, "_multiselect">>

\* key.endswith(suffix); no column label of Layouts ends with a suffix itself.
EndsWith(key, suffix) == key[Len(key)] = suffix

ResetSuffixes == {"_select_all", "_multiselect", "_logic"}

ValueOf(session_state, key, default) ==
    IF key \in DOMAIN session_state THEN session_state[key] ELSE default

Register(session_state, key, default) ==
    IF key \in DOMAIN session_state THEN session_state
    ELSE [k \in DOMAIN session_state \cup {key} |->
             IF k = key THEN default ELSE session_state[k]]

EmptyState == [k \in {} |-> {}]

\* The loop of the Reset button: every key with one of the suffixes is deleted.
DeleteResetKeys(session_state) ==
    [k \in { x \in DOMAIN session_state :
                ~ \E suffix \in ResetSuffixes : EndsWith(x, suffix) } |->
        session_state[k]]

(***************************************************************************)
(* sort_values(by, ascending): ascending order of the key, nulls last,     *)
(* rows of equal key in their prior order.  Texts compare character by     *)
(* character in code-point order.                                          *)
(***************************************************************************)
Alphabet == <<" ", "1", "C", "G", "M", "P", "a", "e", "i", "l", "n", "o", "r", "s", "t", "w">>

Ord(ch) == CHOOSE k \in DOMAIN Alphabet : Alphabet[k] = ch

RECURSIVE TextLess(_, _)
TextLess(a, b) ==
    IF b = <<>> THEN FALSE
    ELSE IF a = <<>> THEN TRUE
    ELSE IF Ord(a[1]) # Ord(b[1]) THEN Ord(a[1]) < Ord(b[1])
    ELSE TextLess(Tail(a), Tail(b))

ColumnField(c) ==
    IF c = CapCol THEN "cap" ELSE IF c = YearCol THEN "year"
    ELSE IF c = GemCol THEN "gem" ELSE "txt"

IsNumeric(c) == ColumnField(c) \in {"cap", "year"}

IsNull(c, x) == IF IsNumeric(c) THEN x = NaN ELSE x = NullText

\* Whether row i goes strictly before row j when sorting by column c.
Before(df, c, i, j) ==
    LET a == df.rows[i][ColumnField(c)]
        b == df.rows[j][ColumnField(c)]
    IN  IF IsNull(c, a) THEN FALSE
        ELSE IF IsNull(c, b) THEN TRUE
        ELSE IF IsNumeric(c) THEN a < b
        ELSE TextLess(a, b)

RECURSIVE Insert(_, _, _, _)
Insert(df, c, sorted, i) ==
    IF sorted = <<>> THEN <<i>>
    ELSE IF Before(df, c, i, sorted[1]) THEN <<i>> \o sorted
    ELSE <<sorted[1]>> \o Insert(df, c, Tail(sorted), i)

RECURSIVE sort_values(_, _, _)
sort_values(df, c, index) ==
    IF index = <<>> THEN <<>>
    ELSE Insert(df, c, sort_values(df, c, SubSeq(index, 1, Len(index) - 1)),
                index[Len(index)])

PreviewRows == 100

(***************************************************************************)
(* One run of the script, as a chain of steps over the record of what the  *)
(* run has produced so far.  halt says how the run ended: "none" while it  *)
(* is still running, "exception" when a step raised, "stop" at st.stop().  *)
(* log lists the calls made, in order; rendered is the set of widgets the  *)
(* run has drawn; w are the widget values the run reads.                   *)
(***************************************************************************)
EmptyDf == [columns |-> <<>>, rows |-> <<>>]

Blank(w) ==
    [halt |-> "none", exception |-> "none", log |-> <<>>, rendered |-> {},
     session_state |-> w.session_state, df |-> EmptyDf,
     filter_conditions |-> <<>>, condition_bound |-> FALSE, condition |-> <<>>,
     combined_filter |-> <<>>, filtered_bound |-> FALSE, filtered_df |-> <<>>,
     sorted_df |-> <<>>, preview |-> <<>>, downloads |-> <<>>]

Running(r) == r.halt = "none"

Raise(r, what, where) ==
    [r EXCEPT !.halt = "exception", !.exception = what, !.log = Append(@, where)]

\* get_valid_sheet_names and the sheet selectbox.
SheetStep(v, wb, w, r) ==
    IF wb.readable
    THEN [r EXCEPT !.log = @ \o <<"get_valid_sheet_names", "selectbox_sheet">>,
                   !.rendered = @ \cup {"selected_sheet"}]
    ELSE [r EXCEPT !.log = @ \o <<"get_valid_sheet_names", "st.error", "selectbox_sheet">>,
                   !.rendered = @ \cup {"selected_sheet"}]

\* load_sample_sheet, uncaught when the bytes are no workbook.
SampleStep(v, wb, w, r) ==
    IF ~Running(r) THEN r
    ELSE IF ~wb.readable THEN Raise(r, "read_excel", "load_sample_sheet")
    ELSE [r EXCEPT !.log = @ \o <<"load_sample_sheet", "st.success">>,
                   !.df = CoerceStartYear(load_sample_sheet(wb))]

\* The full-load checkbox.  In FINAL df is assigned under the checkbox only
\* (and then from the sample), so a run with the box unticked has no df.
FullStep(v, wb, w, r) ==
    IF ~Running(r) THEN r
    ELSE LET drawn == [r EXCEPT !.rendered = @ \cup {"load_full"}]
         IN  IF w.load_full
             THEN [drawn EXCEPT !.log = @ \o <<"load_full_sheet">>,
                                !.df = IF v = "FINAL" THEN r.df
                                       ELSE CoerceStartYear(load_full_sheet(wb))]
             ELSE IF v = "FINAL" THEN Raise(drawn, "NameError", "df")
             ELSE drawn

\* The global mode radio and the Reset button.
SidebarStep(v, w, r) ==
    IF ~Running(r) THEN r
    ELSE [r EXCEPT !.rendered = @ \cup {"logic_mode", "reset"}]
\* filter_conditions.append(condition), condition staying bound afterwards.
AppendCondition(r, name, mask) ==
    [r EXCEPT !.filter_conditions = Append(@, [filter |-> name, mask |-> mask]),
              !.condition_bound = TRUE, !.condition = mask]

\* Numeric filter: Capacity.
CapStep(v, w, r) ==
    IF ~Running(r) \/ ~Has(r.df.columns, CapCol) THEN r
    ELSE AppendCondition([r EXCEPT !.rendered = @ \cup {"cap_range"},
                                   !.log = Append(@, "filter_capacity")],
                         CapCol, RangeMask(r.df, "cap", w.cap_range))

\* Numeric filter: Start year, built when the column has a value.
YearStep(v, w, r) ==
    IF ~Running(r) \/ ~Has(r.df.columns, YearCol) \/ NotNullNums(r.df, "year") = {}
    THEN r
    ELSE AppendCondition([r EXCEPT !.rendered = @ \cup {"selected_years"},
                                   !.log = Append(@, "filter_start_year")],
                         YearCol, RangeMask(r.df, "year", w.selected_years))

\* Boolean filter: GEM unit, built when the box is ticked.
GemStep(v, w, r) ==
    IF ~Running(r) \/ ~Has(r.df.columns, GemCol) THEN r
    ELSE LET drawn == [r EXCEPT !.rendered = @ \cup {"include_gem_only"}]
         IN  IF w.include_gem_only
             THEN AppendCondition([drawn EXCEPT !.log = Append(@, "filter_gem")],
                                  GemCol, NotnaMask(r.df))
             ELSE drawn

\* pd.api.types.is_string_dtype of what the draft hands it for a text column:
\* the non-null cells (GEMScan), their texts (FULL_UPDATED), the column itself
\* (FINAL).  A column read with no text in it is a float column of nulls.
is_string_dtype(v, df) ==
    IF v = "FULL_UPDATED" THEN TRUE
    ELSE df.rows = <<>> \/ unique_values(df) # {}

\* The mask of a set filter with a non-empty selection.  In FINAL the Match ANY
\* branch computes isin and then overwrites it with the substring test, and the
\* Match ALL case has no branch: condition is what an earlier filter left.
SetMask(v, df, mode, selected, r) ==
    IF v = "FINAL"
    THEN IF mode = MatchAny
         THEN [bound |-> TRUE, mask |-> AllInMask(df, selected)]
         ELSE [bound |-> r.condition_bound, mask |-> r.condition]
    ELSE IF mode = MatchAny
         THEN [bound |-> TRUE,
               mask |-> IF v = "GEMScan" THEN IsinMask(df, selected)
                        ELSE IsinStrMask(df, selected)]
         ELSE [bound |-> TRUE, mask |-> AllInMask(df, selected)]

\* The body of the loop over the columns, for the text column c.
SetStepFor(v, w, r, c) ==
    IF ~is_string_dtype(v, r.df) THEN r
    ELSE LET lk == logic_key(v, r.df, c)
             mk == multiselect_key(v, r.df, c)
             logic_mode_col == ValueOf(r.session_state, lk, MatchAny)
             selected_options == ValueOf(r.session_state, mk, {})
             drawn == [r EXCEPT !.rendered = @ \cup {"logic_mode_col", "selected_options"},
                                !.session_state = Register(Register(@, lk, MatchAny), mk, {})]
             m == SetMask(v, r.df, logic_mode_col, selected_options, r)
         IN  IF selected_options = {} THEN drawn
             ELSE IF ~m.bound THEN Raise(drawn, "NameError", "condition")
             ELSE [AppendCondition([drawn EXCEPT !.log = Append(@, "filter_set")],
                                   c, m.mask)
                      EXCEPT !.condition = m.mask]

\* for column in df.columns: the special columns are skipped.
SetStep(v, w, r) ==
    IF ~Running(r) \/ ~HasTextCol(r.df.columns) THEN r
    ELSE SetStepFor(v, w, r, TextColOf(r.df.columns))

(***************************************************************************)
(* Combining the masks: the first mask, then & or | with each next one.    *)
(***************************************************************************)
And(a, b) == [i \in DOMAIN a |-> a[i] /\ b[i]]

Or(a, b) == [i \in DOMAIN a |-> a[i] \/ b[i]]

\* The fold with | whatever the mode: what C3 rules out.
RECURSIVE FoldAlwaysOr(_, _, _)
FoldAlwaysOr(acc, conds, logic_mode) ==
    IF conds = <<>> THEN acc
    ELSE FoldAlwaysOr(Or(acc, conds[1].mask), Tail(conds), logic_mode)

\* The fold with & and | exchanged: what C4 rules out.
RECURSIVE FoldSwapped(_, _, _)
FoldSwapped(acc, conds, logic_mode) ==
    IF conds = <<>> THEN acc
    ELSE FoldSwapped(IF logic_mode = "AND" THEN Or(acc, conds[1].mask)
                     ELSE And(acc, conds[1].mask),
                     Tail(conds), logic_mode)

\* The loop of the script.
RECURSIVE Fold(_, _, _)
Fold(acc, conds, logic_mode) ==
    IF conds = <<>> THEN acc
    ELSE Fold(IF logic_mode = "AND" THEN And(acc, conds[1].mask)
              ELSE Or(acc, conds[1].mask),
              Tail(conds), logic_mode)

combined_filter(conds, logic_mode) == Fold(conds[1].mask, Tail(conds), logic_mode)

\* df[mask]: the index labels of the rows whose mask is true, in order.
RECURSIVE Select(_, _)
Select(mask, n) ==
    IF n = 0 THEN <<>>
    ELSE Select(mask, n - 1) \o (IF mask[n] THEN <<n>> ELSE <<>>)

AllRows(df) == [i \in DOMAIN df.rows |-> i]

\* Apply combined filter.  GEMScan: df[combined_filter], or a copy of df when
\* there is no condition.  FINAL: the copy of df overwrites df[combined_filter]
\* inside the if, and nothing is assigned when there is no condition.
filtered_df(v, df, conds, logic_mode) ==
    IF conds # <<>>
    THEN [bound |-> TRUE,
          index |-> IF v = "FINAL" THEN AllRows(df)
                    ELSE Select(combined_filter(conds, logic_mode), Len(df.rows))]
    ELSE IF v = "FINAL" THEN [bound |-> FALSE, index |-> <<>>]
    ELSE [bound |-> TRUE, index |-> AllRows(df)]

CombineStep(v, w, r) ==
    IF ~Running(r) THEN r
    ELSE LET f == filtered_df(v, r.df, r.filter_conditions, w.logic_mode)
         IN  IF r.filter_conditions # <<>>
             THEN [r EXCEPT !.log = Append(@, "combined_filter"),
                            !.combined_filter =
                                combined_filter(r.filter_conditions, w.logic_mode),
                            !.filtered_bound = f.bound,
                            !.filtered_df = f.index]
             ELSE [r EXCEPT !.filtered_bound = f.bound, !.filtered_df = f.index]

\* if filtered_df.empty: warning and st.stop().
EmptyStep(v, w, r) ==
    IF ~Running(r) THEN r
    ELSE IF ~r.filtered_bound THEN Raise(r, "NameError", "filtered_df")
    ELSE IF r.filtered_df = <<>>
    THEN [r EXCEPT !.halt = "stop", !.log = @ \o <<"st.warning_no_data", "st.stop">>]
    ELSE r
(***************************************************************************)
(* Sort, preview and download of the filtered table.  The sort widgets are *)
(* at their defaults: the first column, ascending.                         *)
(***************************************************************************)
SortStep(v, w, r) ==
    IF ~Running(r) THEN r
    ELSE [r EXCEPT !.log = Append(@, "sort_values"),
                   !.rendered = @ \cup {"sort_column", "sort_order"},
                   !.sorted_df = sort_values(r.df, r.df.columns[1], r.filtered_df)]

PreviewStep(v, w, r) ==
    IF ~Running(r) THEN r
    ELSE [r EXCEPT !.log = Append(@, "st.dataframe_preview"),
                   !.preview = FirstRows(r.sorted_df, PreviewRows)]

\* to_excel_bytes writes with index=True: the index labels go out as a column.
to_excel_bytes(file_name, index) ==
    [file_name |-> file_name, index_column |-> TRUE, index |-> index]

DownloadStep(v, w, r) ==
    IF ~Running(r) THEN r
    ELSE [r EXCEPT !.log = Append(@, "download_filtered_table"),
                   !.downloads = Append(@, to_excel_bytes("filtered_table.xlsx", r.sorted_df))]

(***************************************************************************)
(* GEMScan: the cumulative chart by type.                                  *)
(***************************************************************************)
CumMinCap == 10
CumMaxCap == 300
CumMinYear == 2015

\* "Plant Type", else "Technology", is renamed to "Type".
RenameType(columns) ==
    IF Has(columns, "Plant Type")
    THEN [i \in DOMAIN columns |-> IF columns[i] = "Plant Type" THEN "Type" ELSE columns[i]]
    ELSE IF Has(columns, "Technology")
    THEN [i \in DOMAIN columns |-> IF columns[i] = "Technology" THEN "Type" ELSE columns[i]]
    ELSE columns

valid_plants(df) ==
    Select([i \in DOMAIN df.rows |->
               /\ Ge(df.rows[i].cap, CumMinCap) /\ Le(df.rows[i].cap, CumMaxCap)
               /\ Ge(df.rows[i].year, CumMinYear)
               /\ df.rows[i].txt # NullText],
           Len(df.rows))

CumulativeByTypeStep(v, w, r) ==
    IF ~Running(r) THEN r
    ELSE LET cols == RenameType(r.df.columns)
             renamed == [r EXCEPT !.df.columns = cols]
         IN  IF \A c \in {YearCol, CapCol, "Type"} : Has(cols, c)
             THEN IF valid_plants(r.df) = <<>>
                  THEN [renamed EXCEPT !.log = Append(@, "st.warning_no_plants")]
                  ELSE [renamed EXCEPT
                           !.log = @ \o <<"cumulative_table", "cumulative_chart",
                                          "download_chart_png", "download_cumulative_table">>,
                           !.downloads = @ \o
                               << [file_name |-> "cumulative_plant_type_chart.png",
                                   index_column |-> FALSE, index |-> valid_plants(r.df)],
                                  to_excel_bytes("cumulative_plant_type_table.xlsx",
                                                 valid_plants(r.df)) >>]
             ELSE [renamed EXCEPT !.log = Append(@, "st.warning_columns_missing")]

(***************************************************************************)
(* FINAL: the chart builder, the cumulative chart by size and the type     *)
(* lookup.  plot_df is assigned only under "if group_col:", and the        *)
(* cumulative chart by type sits under "if type_col is None:".             *)
(***************************************************************************)
ChartBuilderStep(v, w, r) ==
    IF ~Running(r) THEN r
    ELSE LET drawn == [r EXCEPT !.rendered = @ \cup {"group_col"}]
         IN  IF w.group_col
             THEN [drawn EXCEPT !.log = @ \o <<"chart_builder", "download_chart_data">>,
                                !.downloads = Append(@, to_excel_bytes("chart_data.xlsx", r.sorted_df))]
             ELSE Raise(drawn, "NameError", "plot_df")

CumulativeBySizeStep(v, w, r) ==
    IF ~Running(r) \/ ~Has(r.df.columns, CapCol) THEN r
    ELSE [r EXCEPT !.log = @ \o <<"cumulative_by_size", "download_cumulative_data">>,
                   !.downloads = Append(@, to_excel_bytes("cumulative_data.xlsx", r.sorted_df))]

type_col(columns) ==
    IF Has(columns, "Type") THEN "Type"
    ELSE IF Has(columns, "Plant Type") THEN "Plant Type"
    ELSE IF Has(columns, "Technology") THEN "Technology"
    ELSE "None"

TypeLookupStep(v, w, r) ==
    IF ~Running(r) THEN r
    ELSE IF type_col(r.df.columns) # "None" THEN r
    ELSE LET warned == [r EXCEPT !.log = Append(@, "st.warning_no_type_column")]
         IN  IF ~Has(r.df.columns, CapCol) THEN Raise(warned, "KeyError", CapCol)
             ELSE Raise(warned, "KeyError", "None")

End(r) == IF Running(r) THEN [r EXCEPT !.halt = "end"] ELSE r

(***************************************************************************)
(* The whole run of each draft.                                            *)
(***************************************************************************)
Filters(v, w, r) == SetStep(v, w, GemStep(v, w, YearStep(v, w, CapStep(v, w, SidebarStep(v, w, r)))))

Loaded(v, wb, w) == FullStep(v, wb, w, SampleStep(v, wb, w, SheetStep(v, wb, w, Blank(w))))

Presented(v, w, r) ==
    DownloadStep(v, w, PreviewStep(v, w, SortStep(v, w, EmptyStep(v, w, CombineStep(v, w, r)))))

Run(v, wb, w) ==
    LET built == Filters(v, w, Loaded(v, wb, w))
    IN  IF v = "GEMScan" THEN End(CumulativeByTypeStep(v, w, Presented(v, w, built)))
        ELSE IF v = "FULL_UPDATED" THEN End(built)
        ELSE End(TypeLookupStep(v, w, CumulativeBySizeStep(v, w,
                     ChartBuilderStep(v, w, Presented(v, w, built)))))
(***************************************************************************)
(* The state: the draft that serves the page, the uploaded workbook, the   *)
(* widget values kept between runs, and the outcome of the latest run.     *)
(***************************************************************************)
VARIABLES variant, workbook, widgets, page, call

vars == <<variant, workbook, widgets, page, call>>

\* call is a helper of the script being applied on its own (see the end of
\* the module); the page itself leaves it idle.
Idle == [fn |-> "none"]

\* The values the numeric inputs are set to.
CapChoices == {5, 100}
YearChoices == {2014, 2016}

\* The table the widgets are drawn from.
Sheet(wb) == CoerceStartYear(load_sample_sheet(wb))

Defaults(wb) ==
    LET df == Sheet(wb)
    IN  [load_full |-> FALSE, logic_mode |-> "AND",
         cap_range |-> CapDefault(df), selected_years |-> YearDefault(df),
         include_gem_only |-> FALSE, group_col |-> FALSE,
         session_state |-> EmptyState]

\* A widget the run did not draw loses its value; the keys the run registered
\* are the session state of the next run.
Kept(wb, w, r) ==
    LET d == Defaults(wb)
        keep(name, field) == IF name \in r.rendered THEN w[field] ELSE d[field]
    IN  [load_full |-> keep("load_full", "load_full"),
         logic_mode |-> keep("logic_mode", "logic_mode"),
         cap_range |-> keep("cap_range", "cap_range"),
         selected_years |-> keep("selected_years", "selected_years"),
         include_gem_only |-> keep("include_gem_only", "include_gem_only"),
         group_col |-> keep("group_col", "group_col"),
         session_state |-> IF "selected_options" \in r.rendered
                           THEN r.session_state ELSE EmptyState]

\* The script runs with the widget values w.
Rerun(w) ==
    /\ page' = Run(variant, workbook, w)
    /\ widgets' = Kept(workbook, w, page')
    /\ UNCHANGED <<variant, workbook, call>>

Init ==
    /\ variant \in Variants
    /\ workbook \in Workbooks
    /\ page = Run(variant, workbook, Defaults(workbook))
    /\ widgets = Kept(workbook, Defaults(workbook), page)
    /\ call = Idle

Drawn(name) == name \in page.rendered

ToggleLoadFull ==
    /\ Drawn("load_full")
    /\ Rerun([widgets EXCEPT !.load_full = ~@])

SetLogicMode ==
    /\ Drawn("logic_mode")
    /\ \E m \in {"AND", "OR"} :
          /\ m # widgets.logic_mode
          /\ Rerun([widgets EXCEPT !.logic_mode = m])

\* GEMScan draws sliders, which keep min <= lo <= hi <= max; the later drafts
\* draw two free number inputs.
InSlider(rng, default) ==
    /\ rng[1] <= rng[2]
    /\ Le(default[1], rng[1])
    /\ Le(rng[2], default[2])

SetCapRange ==
    /\ Drawn("cap_range")
    /\ \E rng \in CapChoices \X CapChoices :
          /\ rng # widgets.cap_range
          /\ variant = "GEMScan" => InSlider(rng, CapDefault(Sheet(workbook)))
          /\ Rerun([widgets EXCEPT !.cap_range = rng])

SetYearRange ==
    /\ Drawn("selected_years")
    /\ \E rng \in YearChoices \X YearChoices :
          /\ rng # widgets.selected_years
          /\ variant = "GEMScan" => InSlider(rng, YearDefault(Sheet(workbook)))
          /\ Rerun([widgets EXCEPT !.selected_years = rng])

ToggleGemOnly ==
    /\ Drawn("include_gem_only")
    /\ Rerun([widgets EXCEPT !.include_gem_only = ~@])

TextKeyDrawn == Drawn("selected_options")

LogicKey == logic_key(variant, Sheet(workbook), TextColOf(workbook.columns))

MultiselectKey == multiselect_key(variant, Sheet(workbook), TextColOf(workbook.columns))

SetMatchMode ==
    /\ TextKeyDrawn
    /\ \E m \in {MatchAny, MatchAll} :
          /\ m # widgets.session_state[LogicKey]
          /\ Rerun([widgets EXCEPT !.session_state[LogicKey] = m])

SetSelection ==
    /\ TextKeyDrawn
    /\ \E sel \in SUBSET unique_values(Sheet(workbook)) :
          /\ sel # widgets.session_state[MultiselectKey]
          /\ Rerun([widgets EXCEPT !.session_state[MultiselectKey] = sel])

ChooseGroupCol ==
    /\ Drawn("group_col")
    /\ Rerun([widgets EXCEPT !.group_col = ~@])

\* The Reset button: the keys with the suffixes are deleted and
\* st.experimental_rerun() ends the run there, before any widget below the
\* button is drawn.  The script gives those widgets no value: the next run
\* finds the values they had (the browser still holds them), or, when the
\* framework has dropped the state of the widgets the interrupted run did not
\* draw, their defaults.
AfterInterruptedRun(w) ==
    { [w EXCEPT !.session_state = DeleteResetKeys(@)],
      [Defaults(workbook) EXCEPT !.load_full = w.load_full,
                                 !.logic_mode = w.logic_mode] }

ResetAllFilters ==
    /\ Drawn("reset")
    /\ \E w \in AfterInterruptedRun(widgets) : Rerun(w)

Next ==
    \/ ToggleLoadFull
    \/ SetLogicMode
    \/ SetCapRange
    \/ SetYearRange
    \/ ToggleGemOnly
    \/ SetMatchMode
    \/ SetSelection
    \/ ChooseGroupCol
    \/ ResetAllFilters

Spec == Init /\ [][Next]_vars

(***************************************************************************)
(* Properties.                                                             *)
(***************************************************************************)
Rows(index) == Range(index)

RowIds == DOMAIN page.df.rows

Conds == page.filter_conditions

\* The conditions at the positions S, in their order.
RECURSIVE Pick(_, _, _)
Pick(conds, S, k) ==
    IF k > Len(conds) THEN <<>>
    ELSE (IF k \in S THEN <<conds[k]>> ELSE <<>>) \o Pick(conds, S, k + 1)

Reorder(conds, p) == [i \in DOMAIN conds |-> conds[p[i]]]

HasCond(name) == \E k \in DOMAIN Conds : Conds[k].filter = name

CondOf(name) == Conds[CHOOSE k \in DOMAIN Conds : Conds[k].filter = name]

InLog(step) == step \in Range(page.log)

\* The run ended with an exception raised at the named place.
RaisedAt(where) == page.halt = "exception" /\ page.log[Len(page.log)] = where

TextCol == TextColOf(workbook.columns)

Selected == widgets.session_state[MultiselectKey]

MatchMode == widgets.session_state[LogicKey]

\* The run drew the set filter of the text column and a selection is made.
SetFilterActive ==
    /\ HasTextCol(workbook.columns)
    /\ Drawn("selected_options")
    /\ Selected # {}

\* The drafts that go on to filter the table (FULL_UPDATED ends after the
\* filter loop).
Filtering == variant \in {"GEMScan", "FINAL"}

\* The rows the filters keep: those whose combined mask is true, every row
\* when no filter is active.
Matching ==
    IF Conds = <<>> THEN AllRows(page.df)
    ELSE Select(page.combined_filter, Len(page.df.rows))

\* C1: with at least one active mask, the combined mask is at every row the
\* conjunction (AND) or the disjunction (OR) of all the active masks, in
\* whatever order they are combined, and the filtered table is exactly the
\* rows whose combined mask is true.
C1_CombinedMaskIsTheFilter ==
    (Filtering /\ InLog("combined_filter")) =>
        /\ \A i \in RowIds :
              page.combined_filter[i] =
                 IF widgets.logic_mode = "AND"
                 THEN \A k \in DOMAIN Conds : Conds[k].mask[i]
                 ELSE \E k \in DOMAIN Conds : Conds[k].mask[i]
        /\ \A p \in Permutations(DOMAIN Conds) :
              combined_filter(Reorder(Conds, p), widgets.logic_mode) = page.combined_filter
        /\ page.filtered_bound
        /\ page.filtered_df = Select(page.combined_filter, Len(page.df.rows))

\* C2: with no active filter the filtered table is the whole loaded table, the
\* rows in their original order, under AND and under OR.
C2_NoFilterKeepsTheTable ==
    (Filtering /\ Drawn("logic_mode") /\ Conds = <<>> /\ ~RaisedAt("condition")) =>
        /\ page.filtered_bound
        /\ page.filtered_df = AllRows(page.df)

\* The widget values with some of the filters that can be switched off
\* switched off: the set selection cleared, the presence box unticked.
ClearSelection(session_state) ==
    IF HasTextCol(workbook.columns) /\ MultiselectKey \in DOMAIN session_state
    THEN [session_state EXCEPT ![MultiselectKey] = {}]
    ELSE session_state

Deactivations ==
    { [widgets EXCEPT !.include_gem_only = g, !.session_state = ss] :
         g \in {widgets.include_gem_only, FALSE},
         ss \in {widgets.session_state, ClearSelection(widgets.session_state)} }

\* C3: in GEMScan.py under AND, the rows kept with the active filters F are
\* among the rows kept with any part F' of F: by any sub-list of the masks,
\* and by the run with a selection cleared or the presence box unticked.
C3_RemovingFiltersKeepsRows ==
    (variant = "GEMScan" /\ page.filtered_bound /\ widgets.logic_mode = "AND") =>
        /\ \A S \in SUBSET DOMAIN Conds :
              Rows(page.filtered_df) \subseteq
                 Rows(filtered_df(variant, page.df, Pick(Conds, S, 1), "AND").index)
        /\ \A w \in Deactivations :
              LET r == Run(variant, workbook, w)
              IN  r.filtered_bound /\ Rows(page.filtered_df) \subseteq Rows(r.filtered_df)

\* C3 witness: a run under AND from which unticking or clearing brings rows back.
C3_Witness ==
    /\ variant = "GEMScan" /\ page.filtered_bound /\ widgets.logic_mode = "AND"
    /\ Len(Conds) >= 2
    /\ \E w \in Deactivations :
          Rows(Run(variant, workbook, w).filtered_df) # Rows(page.filtered_df)

\* C4: with at least one active filter and the same widget values, every row
\* kept under AND is kept under OR.
C4_OrKeepsWhatAndKeeps ==
    (Filtering /\ InLog("combined_filter")) =>
        LET a == Run(variant, workbook, [widgets EXCEPT !.logic_mode = "AND"])
            o == Run(variant, workbook, [widgets EXCEPT !.logic_mode = "OR"])
        IN  /\ a.filter_conditions = Conds /\ o.filter_conditions = Conds
            /\ a.filtered_bound /\ o.filtered_bound
            /\ page.filtered_df \in {a.filtered_df, o.filtered_df}
            /\ Rows(a.filtered_df) \subseteq Rows(o.filtered_df)

\* C4 witness: GEMScan.py keeps a row under OR that it drops under AND.
C4_Witness ==
    /\ variant = "GEMScan" /\ InLog("combined_filter") /\ widgets.logic_mode = "OR"
    /\ Rows(Run(variant, workbook, [widgets EXCEPT !.logic_mode = "AND"]).filtered_df)
          # Rows(page.filtered_df)

\* The cells of the example of C5.
ExampleDf ==
    [columns |-> <<"Fuel">>,
     rows |-> << [cap |-> NaN, year |-> NaN, gem |-> NullText, txt |-> CoalPowerPlant],
                 [cap |-> NaN, year |-> NaN, gem |-> NullText, txt |-> GasPlant],
                 [cap |-> NaN, year |-> NaN, gem |-> NullText, txt |-> CoalMine] >>]

\* C5: the mask of a set filter with a selection is, in Match ANY mode, "the
\* cell equals a selected value" and, in Match ALL mode, "every selected value
\* occurs in the cell's text"; the example cells give [true, false, false]
\* under ALL and [false, false, false] under ANY.
C5_SetFilterMaskFollowsItsMode ==
    (variant \in {"GEMScan", "FINAL"} /\ SetFilterActive /\ HasCond(TextCol)) =>
        /\ \A i \in RowIds :
              CondOf(TextCol).mask[i] =
                 IF MatchMode = MatchAny
                 THEN page.df.rows[i].txt # NullText /\ page.df.rows[i].txt \in Selected
                 ELSE \A opt \in Selected : Contains(Str(page.df.rows[i].txt), opt)
        /\ SetMask(variant, ExampleDf, MatchAny, {Coal, Plant}, page).mask = <<FALSE, FALSE, FALSE>>
        /\ MatchMode = MatchAll =>
              SetMask(variant, ExampleDf, MatchAll, {Coal, Plant}, page).mask = <<TRUE, FALSE, FALSE>>

\* C6: the mask of a range filter is true at a row exactly when the row's
\* value is not null and min <= value <= max for the chosen bounds; a cell of
\* "Start year" that is null or is no number has mask false.
C6_RangeMaskInclusiveNullsOut ==
    /\ HasCond(CapCol) =>
          \A i \in RowIds :
             CondOf(CapCol).mask[i] =
                /\ workbook.rows[i].cap # NaN
                /\ widgets.cap_range[1] <= workbook.rows[i].cap
                /\ workbook.rows[i].cap <= widgets.cap_range[2]
    /\ HasCond(YearCol) =>
          \A i \in RowIds :
             /\ workbook.rows[i].year \in {NaN, Bad} => ~CondOf(YearCol).mask[i]
             /\ workbook.rows[i].year \notin {NaN, Bad} =>
                   CondOf(YearCol).mask[i] =
                      /\ widgets.selected_years[1] <= workbook.rows[i].year
                      /\ workbook.rows[i].year <= widgets.selected_years[2]

\* C6 witness: a capacity mask that keeps a row at the upper bound and drops a
\* null row, or a start-year mask that keeps a row at the lower bound and
\* drops a row whose cell is no number.
C6_Witness ==
    \/ /\ HasCond(CapCol)
       /\ \E i, j \in RowIds :
             /\ workbook.rows[i].cap = widgets.cap_range[2] /\ CondOf(CapCol).mask[i]
             /\ workbook.rows[j].cap = NaN /\ ~CondOf(CapCol).mask[j]
             /\ widgets.cap_range # CapDefault(Sheet(workbook))
    \/ /\ HasCond(YearCol)
       /\ \E i, j \in RowIds :
             /\ workbook.rows[i].year = widgets.selected_years[1] /\ CondOf(YearCol).mask[i]
             /\ workbook.rows[j].year = Bad /\ ~CondOf(YearCol).mask[j]
             /\ widgets.selected_years # YearDefault(Sheet(workbook))

\* The steps after the empty check: sort, preview, charts, aggregations and
\* downloads.
LaterSteps ==
    {"sort_values", "st.dataframe_preview", "download_filtered_table",
     "chart_builder", "download_chart_data", "cumulative_by_size",
     "download_cumulative_data", "cumulative_table", "cumulative_chart",
     "download_chart_png", "download_cumulative_table"}

\* The run has built its filters and has come to apply them.
FiltersBuilt == Filtering /\ Drawn("logic_mode") /\ ~RaisedAt("condition")

\* C7: a run whose filters keep no row reports "no data matches" and runs no
\* later step (no sort, preview, chart, aggregation or download); sort,
\* preview and export are reached only when the filters keep a row.
C7_EmptyResultStopsTheRun ==
    FiltersBuilt =>
        /\ Matching = <<>> =>
              /\ InLog("st.warning_no_data")
              /\ Range(page.log) \cap LaterSteps = {}
              /\ page.downloads = <<>>
        /\ Range(page.log) \cap LaterSteps # {} => Matching # <<>>

\* The widgets after a press of Reset, as C8 has them.
AfterReset(w, r) ==
    /\ (HasTextCol(workbook.columns) /\ "selected_options" \in r.rendered) =>
          /\ w.session_state[MultiselectKey] = {}
          /\ w.session_state[LogicKey] = MatchAny
          /\ \A k \in DOMAIN r.filter_conditions :
                r.filter_conditions[k].filter # TextCol
    /\ w.cap_range = Defaults(workbook).cap_range
    /\ w.selected_years = Defaults(workbook).selected_years
    /\ w.include_gem_only = Defaults(workbook).include_gem_only

Count(step) == Cardinality({ k \in DOMAIN page.log : page.log[k] = step })

\* C9: when the upload is no readable workbook the failure is reported once
\* and the run halts: no sheet is loaded, no filter is built, no later step
\* runs, and no exception escapes.
C9_UnreadableWorkbookHalts ==
    ~workbook.readable =>
        /\ Count("st.error") = 1
        /\ ~InLog("load_sample_sheet") /\ ~InLog("load_full_sheet")
        /\ Conds = <<>>
        /\ Range(page.log) \cap LaterSteps = {}
        /\ page.exception = "none"

TypeNames == {"Plant Type", "Technology", "Type"}

TypeAbsent == \A c \in TypeNames : ~Has(workbook.columns, c)

\* The run has come to the cumulative chart by type.
AtTypeSection ==
    \E step \in {"st.warning_columns_missing", "st.warning_no_type_column",
                 "st.warning_no_plants", "cumulative_table"} : InLog(step)

\* C10: a special column that the sheet does not have is no error: its filter
\* is not built, no run fails on the missing column, the run that comes to
\* the cumulative chart by type warns, skips the aggregation and ends normally,
\* and sort, preview and export of a non-empty result still run.
C10_AbsentColumnDegrades ==
    (workbook.readable /\ Filtering) =>
        /\ \A c \in SpecialCols : ~Has(workbook.columns, c) => ~HasCond(c)
        /\ page.exception # "KeyError"
        /\ ((TypeAbsent \/ ~Has(workbook.columns, CapCol)) /\ AtTypeSection) =>
              /\ InLog("st.warning_columns_missing") \/ InLog("st.warning_no_type_column")
              /\ ~InLog("cumulative_table")
              /\ page.halt = "end"
              /\ \A step \in {"sort_values", "st.dataframe_preview",
                              "download_filtered_table"} : InLog(step)

(***************************************************************************)
(* The helpers of the script applied on their own: call holds the helper,  *)
(* its arguments and, once it has run, its result.                         *)
(***************************************************************************)
MaxSheets == 3

Whitespace == {" ", "\t", "\n"}

Upper == <<"A", "B", "C", "D", "E", "F", "G", "H", "I", "J", "K", "L", "M",
           "N", "O", "P", "Q", "R", "S", "T", "U", "V", "W", "X", "Y", "Z">>

Lower == <<"a", "b", "c", "d", "e", "f", "g", "h", "i", "j", "k", "l", "m",
           "n", "o", "p", "q", "r", "s", "t", "u", "v", "w", "x", "y", "z">>

\* str.lower(), character by character.
lower(s) ==
    [i \in DOMAIN s |->
        IF \E k \in DOMAIN Upper : Upper[k] = s[i]
        THEN Lower[CHOOSE k \in DOMAIN Upper : Upper[k] = s[i]]
        ELSE s[i]]

RECURSIVE lstrip(_)
lstrip(s) == IF s # <<>> /\ s[1] \in Whitespace THEN lstrip(Tail(s)) ELSE s

RECURSIVE rstrip(_)
rstrip(s) ==
    IF s # <<>> /\ s[Len(s)] \in Whitespace THEN rstrip(SubSeq(s, 1, Len(s) - 1)) ELSE s

\* Leading whitespace alone removed.
strip_leading(s) == lstrip(s)

\* str.strip()
strip(s) == rstrip(lstrip(s))

Zinformation == <<"z", "i", "n", "f", "o", "r", "m", "a", "t", "i", "o", "n">>

\* The test of the list comprehension of get_valid_sheet_names.
NotReserved(s) == lower(strip(s)) # Zinformation

\* get_valid_sheet_names of a workbook that opens.
get_valid_sheet_names(sheet_names) == SelectSeq(sheet_names, NotReserved)

Data == <<"D", "a", "t", "a">>
ZInformationName == <<"Z", "I", "n", "f", "o", "r", "m", "a", "t", "i", "o", "n">>
PaddedName == <<" ">> \o Zinformation \o <<" ">>
TabbedName == <<"\t", "Z", "I", "N", "F", "O", "R", "M", "A", "T", "I", "O", "N">>
Zinformation2 == Zinformation \o <<"2">>
SpacedName == <<"z", " ", "i", "n", "f", "o", "r", "m", "a", "t", "i", "o", "n">>

SheetNamePool == {Data, ZInformationName, PaddedName, TabbedName, Zinformation2, SpacedName}

\* The sheet names of a workbook: distinct names in workbook order.
SheetNameLists ==
    { names \in UNION { [1..n -> SheetNamePool] : n \in 0..MaxSheets } :
         \A i, j \in DOMAIN names : i # j => names[i] # names[j] }

SheetCalls == { [fn |-> "get_valid_sheet_names", args |-> names, done |-> FALSE] :
                   names \in SheetNameLists }

CallGetValidSheetNames ==
    /\ call.fn = "get_valid_sheet_names" /\ ~call.done
    /\ call' = [call EXCEPT !.done = TRUE] @@ [result |-> get_valid_sheet_names(call.args)]
    /\ UNCHANGED <<variant, workbook, widgets, page>>

\* A sheet name that, trimmed of the whitespace around it and read without
\* regard to case, is "zinformation".
IsReservedName(name) ==
    \E a \in 1..(Len(name) + 1), b \in 0..Len(name) :
        /\ b - a + 1 = Len(Zinformation)
        /\ \A k \in 1..(a - 1) : name[k] \in Whitespace
        /\ \A k \in (b + 1)..Len(name) : name[k] \in Whitespace
        /\ \A k \in a..b :
              \/ name[k] = Zinformation[k - a + 1]
              \/ \E u \in DOMAIN Upper :
                    Upper[u] = name[k] /\ Lower[u] = Zinformation[k - a + 1]

\* The positions of the sheets that are not reserved, in workbook order.
RECURSIVE Unreserved(_)
Unreserved(names) ==
    IF names = <<>> THEN <<>>
    ELSE (IF IsReservedName(names[1]) THEN <<>> ELSE <<names[1]>>) \o Unreserved(Tail(names))

\* C11: the selectable sheets are the workbook's sheets in workbook order
\* without those whose trimmed, case-insensitive name is "zinformation", and
\* without any other removed; ["Data", "ZInformation", " zinformation "]
\* gives ["Data"].
C11_ReservedSheetsAreHidden ==
    /\ (call.fn = "get_valid_sheet_names" /\ call.done) =>
          call.result = Unreserved(call.args)
    /\ get_valid_sheet_names(<<Data, ZInformationName, PaddedName>>) = <<Data>>

\* C11 witness: a list from which reserved sheets were removed and others kept.
C11_Witness ==
    /\ call.fn = "get_valid_sheet_names" /\ call.done
    /\ Len(call.args) = 3 /\ Len(call.result) = 1
    /\ \E i \in DOMAIN call.args : call.args[i] = Zinformation2

(***************************************************************************)
(* Column labels.  A header cell is a text or a number; pd.read_excel      *)
(* renames a label it has already seen (the same value of the same type)   *)
(* to "label.k", and the loaders then map every label to its string.       *)
(***************************************************************************)
MaxCols == 3

TextLabel(text) == [type |-> "str", text |-> text]

NumberLabel(text) == [type |-> "int", text |-> text]

HeaderPool ==
    { TextLabel("A"), TextLabel("A.1"), TextLabel("1"), NumberLabel("1"),
      TextLabel("Plant Type"), TextLabel("Technology"), TextLabel("Type"),
      TextLabel(YearCol) }

Headers == UNION { [1..n -> HeaderPool] : n \in 0..MaxCols }

CountOf(counts, col) == IF col \in DOMAIN counts THEN counts[col] ELSE 0

SetCount(counts, col, n) ==
    [k \in DOMAIN counts \cup {col} |-> IF k = col THEN n ELSE counts[k]]

\* The loop that finds the name of one column: while the name has been seen,
\* its count goes up and the name becomes f"{col}.{cur_count}".
RECURSIVE DedupName(_, _)
DedupName(col, counts) ==
    LET cur_count == CountOf(counts, col)
    IN  IF cur_count = 0
        THEN [col |-> col, counts |-> SetCount(counts, col, 1)]
        ELSE DedupName(TextLabel(col.text \o "." \o ToString(cur_count)),
                       SetCount(counts, col, cur_count + 1))

RECURSIVE DedupNames(_, _, _)
DedupNames(names, i, counts) ==
    IF i > Len(names) THEN names
    ELSE LET named == DedupName(names[i], counts)
         IN  DedupNames([names EXCEPT ![i] = named.col], i + 1, named.counts)

\* The labels pd.read_excel gives the header row.
read_excel_columns(header) == DedupNames(header, 1, <<>>)

\* df.columns.map(str)
columns_map_str(labels) == [i \in DOMAIN labels |-> labels[i].text]

\* The labels of the table load_sample_sheet and load_full_sheet return.
loaded_columns(header) == columns_map_str(read_excel_columns(header))

\* The labels through the pass: as loaded, after "Start year" is written,
\* and after the type column is renamed.
column_labels(header) ==
    LET loaded == loaded_columns(header)
        coerced == CoerceStartYear([columns |-> loaded, rows |-> <<>>]).columns
    IN  [loaded |-> loaded, coerced |-> coerced, renamed |-> RenameType(coerced)]

LabelCalls == { [fn |-> "column_labels", args |-> header, done |-> FALSE] :
                   header \in Headers }

CallColumnLabels ==
    /\ call.fn = "column_labels" /\ ~call.done
    /\ call' = [call EXCEPT !.done = TRUE] @@ [result |-> column_labels(call.args)]
    /\ UNCHANGED <<variant, workbook, widgets, page>>

PairwiseDistinct(labels) ==
    \A i, j \in DOMAIN labels : i # j => labels[i] # labels[j]

\* C12: whatever the header row (duplicate labels, the number 1 beside the
\* text "1"), the labels of the loaded table are pairwise distinct, and stay
\* so after "Start year" is written and after the type column is renamed.
C12_ColumnLabelsStayDistinct ==
    (call.fn = "column_labels" /\ call.done) =>
        /\ PairwiseDistinct(call.result.loaded)
        /\ PairwiseDistinct(call.result.coerced)
        /\ PairwiseDistinct(call.result.renamed)

(***************************************************************************)
(* The cumulative table by type: valid_plants grouped by start year and    *)
(* type, counted, unstacked with 0 for the empty groups, sorted by year    *)
(* and summed down the years.                                              *)
(***************************************************************************)
MaxPlants == 3

Gas == <<"G", "a", "s">>

PlantRow(cap, year, type) == [cap |-> cap, year |-> year, gem |-> NullText, txt |-> type]

PlantPool ==
    { PlantRow(100, 2015, Coal), PlantRow(300, 2016, Gas), PlantRow(10, 2017, Coal),
      PlantRow(5, 2015, Gas), PlantRow(100, 2014, Coal), PlantRow(100, 2016, NullText) }

PlantTables ==
    { [columns |-> <<CapCol, YearCol, "Type">>, rows |-> rows] :
         rows \in UNION { [1..n -> PlantPool] : n \in 0..MaxPlants } }

\* sort_index(): the keys in ascending order.
RECURSIVE sort_index(_)
sort_index(S) == IF S = {} THEN <<>> ELSE <<SetMin(S)>> \o sort_index(S \ {SetMin(S)})

\* groupby(["Start year", "Type"]).size(), 0 where unstack fills.
annual(df, plants, year, type) ==
    Cardinality({ k \in DOMAIN plants :
                     df.rows[plants[k]].year = year /\ Str(df.rows[plants[k]].txt) = type })

\* The cell of the unstacked counts at a position of the index.
annual_at(df, plants, index, k, type) == annual(df, plants, index[k], type)

\* cumsum(): the running sum down the index.
RECURSIVE cumsum_at(_, _, _, _, _)
cumsum_at(df, plants, index, k, type) ==
    IF k = 0 THEN 0
    ELSE cumsum_at(df, plants, index, k - 1, type) + annual(df, plants, index[k], type)

\* cumulative: its index, its columns and its cells.
cumulative(df, plants) ==
    LET index == sort_index({ df.rows[plants[k]].year : k \in DOMAIN plants })
        columns == { Str(df.rows[plants[k]].txt) : k \in DOMAIN plants }
    IN  [index |-> index, columns |-> columns,
         cells |-> [k \in DOMAIN index |->
                      [t \in columns |-> cumsum_at(df, plants, index, k, t)]]]

\* The section of the page: GEMScan shows the table when a plant qualifies;
\* FINAL comes to its aggregation only when no type column is found.
cumulative_by_type(v, df) ==
    IF v = "GEMScan"
    THEN IF \A c \in {YearCol, CapCol, "Type"} : Has(RenameType(df.columns), c)
         THEN IF valid_plants(df) = <<>> THEN [shown |-> FALSE, outcome |-> "st.warning_no_plants"]
              ELSE [shown |-> TRUE, outcome |-> "cumulative_table",
                    table |-> cumulative(df, valid_plants(df))]
         ELSE [shown |-> FALSE, outcome |-> "st.warning_columns_missing"]
    ELSE IF type_col(df.columns) = "None"
         THEN [shown |-> FALSE, outcome |-> "KeyError"]
         ELSE [shown |-> FALSE, outcome |-> "skipped"]

CumulativeCalls ==
    { [fn |-> "cumulative_by_type", args |-> [v |-> v, df |-> df], done |-> FALSE] :
         v \in {"GEMScan", "FINAL"}, df \in PlantTables }

CallCumulativeByType ==
    /\ call.fn = "cumulative_by_type" /\ ~call.done
    /\ call' = [call EXCEPT !.done = TRUE] @@
                  [result |-> cumulative_by_type(call.args.v, call.args.df)]
    /\ UNCHANGED <<variant, workbook, widgets, page>>

\* The rows that qualify: capacity from 10 to 300, start year 2015 or later,
\* a type.
Qualifying(df) ==
    { i \in DOMAIN df.rows :
         /\ df.rows[i].cap # NaN /\ 10 <= df.rows[i].cap /\ df.rows[i].cap <= 300
         /\ df.rows[i].year # NaN /\ df.rows[i].year >= 2015
         /\ df.rows[i].txt # NullText }

ExamplePlants ==
    [columns |-> <<CapCol, YearCol, "Type">>,
     rows |-> << PlantRow(100, 2015, Coal), PlantRow(100, 2015, Coal), PlantRow(100, 2016, Gas) >>]

\* C13: the cumulative table has one row per start year of the qualifying
\* rows, in ascending order, and one column per type among them; the cell of
\* (y, t) is the number of qualifying rows of type t with start year <= y.
\* (2015, Coal), (2015, Coal), (2016, Gas) give 2015: Coal 2, Gas 0 and
\* 2016: Coal 2, Gas 1.
C13_CumulativeTableCountsUpToYear ==
    /\ (call.fn = "cumulative_by_type" /\ call.done /\ call.result.shown) =>
          LET df == call.args.df
              t == call.result.table
              Q == Qualifying(df)
          IN  /\ Range(t.index) = { df.rows[i].year : i \in Q }
              /\ \A j, k \in DOMAIN t.index : j < k => t.index[j] < t.index[k]
              /\ t.columns = { df.rows[i].txt : i \in Q }
              /\ \A k \in DOMAIN t.index : \A type \in t.columns :
                    t.cells[k][type] =
                       Cardinality({ i \in Q : df.rows[i].txt = type
                                                /\ df.rows[i].year <= t.index[k] })
    /\ LET e == cumulative(ExamplePlants, valid_plants(ExamplePlants))
       IN  /\ e.index = <<2015, 2016>>
           /\ e.cells[1] = [t \in {Coal, Gas} |-> IF t = Coal THEN 2 ELSE 0]
           /\ e.cells[2] = [t \in {Coal, Gas} |-> IF t = Coal THEN 2 ELSE 1]

\* C13 witness: a table of two years and two types with a cell that counts
\* rows of an earlier year.
C13_Witness ==
    /\ call.fn = "cumulative_by_type" /\ call.done /\ call.result.shown
    /\ Len(call.result.table.index) = 2
    /\ call.result.table.columns = {Coal, Gas}
    /\ \E t \in {Coal, Gas} :
          /\ call.result.table.cells[2][t] > 0
          /\ annual(call.args.df, valid_plants(call.args.df), call.result.table.index[2], t) = 0

(***************************************************************************)
(* Export and reload.  df.to_excel(writer, index=True) writes the index    *)
(* labels as the first column, under the name of the index when it has     *)
(* one; pd.read_excel names a column whose header cell is empty            *)
(* "Unnamed: 0".                                                           *)
(***************************************************************************)
UnnamedColumn == "Unnamed: 0"

\* The sheet of an export read back: its labels and, row by row, the index
\* labels of the rows written.
read_excel_export(columns, index_name, export) ==
    [columns |-> IF export.index_column
                 THEN <<IF index_name = "" THEN UnnamedColumn ELSE index_name>> \o columns
                 ELSE columns,
     rows |-> export.index]

\* The exports of the latest run under a file name.
Exports(file_name) ==
    { page.downloads[k] : k \in { j \in DOMAIN page.downloads :
                                     page.downloads[j].file_name = file_name } }

\* C14: the filtered table exported and read back has the labels of the
\* table, in their order and with no index column added, and the rows of the
\* table shown, in their order; the export of the cumulative table keeps its
\* row index as a labelled column.
C14_ExportRoundTrip ==
    /\ \A d \in Exports("filtered_table.xlsx") :
          LET back == read_excel_export(Sheet(workbook).columns, "", d)
          IN  /\ back.columns = Sheet(workbook).columns
              /\ back.rows = page.sorted_df
    /\ \A d \in Exports("cumulative_plant_type_table.xlsx") :
          LET back == read_excel_export(<<"Type">>, YearCol, d)
          IN  back.columns[1] = YearCol

(***************************************************************************)
(* The string filter of one column, on columns whose cells are text,       *)
(* numbers, dates or null.  pandas gives a column read from a sheet the     *)
(* dtype of its cells: int64 for numbers, float64 for numbers with nulls    *)
(* (and for nulls alone), datetime64 for dates, object otherwise and for a  *)
(* sheet without rows.  is_string_dtype is False outside object dtype;      *)
(* on object dtype it is True in pandas 1 and, in pandas 2, True when the   *)
(* values are all str and there is one: the draft pins no version, so both  *)
(* outcomes are kept.                                                       *)
(***************************************************************************)
MaxCells == 3

TextCell(value) == [type |-> "str", value |-> value]

NumberCell(value) == [type |-> "int", value |-> value]

DateCell(value) == [type |-> "Timestamp", value |-> value]

NullCell == [type |-> "NaN", value |-> <<>>]

Five == <<"5">>

NewYear == <<"2", "0", "2", "0", "-", "0", "1", "-", "0", "1">>

Midnight == <<" ", "0", "0", ":", "0", "0", ":", "0", "0">>

CellPool == { TextCell(Coal), TextCell(Gas), NumberCell(Five), DateCell(NewYear), NullCell }

CellColumns == UNION { [1..n -> CellPool] : n \in 0..MaxCells }

Types(cells) == { cells[i].type : i \in DOMAIN cells }

\* The dtype read_excel gives the column.
dtype(cells) ==
    IF cells = <<>> THEN "object"
    ELSE IF Types(cells) = {"int"} THEN "int64"
    ELSE IF Types(cells) \subseteq {"int", "NaN"} THEN "float64"
    ELSE IF Types(cells) \subseteq {"Timestamp", "NaN"} THEN "datetime64"
    ELSE "object"

NotNullCell(c) == c.type # "NaN"

\* Series.dropna()
dropna(cells) == SelectSeq(cells, NotNullCell)

\* astype(str) of a cell of a column of dtype dt.
astype_str(c, dt) ==
    IF c.type = "int" THEN (IF dt = "float64" THEN c.value \o <<".", "0">> ELSE c.value)
    ELSE IF c.type = "Timestamp" THEN (IF dt = "datetime64" THEN c.value ELSE c.value \o Midnight)
    ELSE IF c.type = "NaN" THEN NanText
    ELSE c.value

\* pd.api.types.is_string_dtype: the outcomes on values of dtype dt.
is_string_dtype_outcomes(dt, values) ==
    IF dt # "object" THEN {FALSE}
    ELSE {TRUE, values # <<>> /\ Types(values) = {"str"}}

\* The characters of the cells, in code point order.
CodePoints ==
    <<" ", "-", ".", "0", "1", "2", "3", "4", "5", "6", "7", "8", "9", ":">> \o Upper \o Lower

CodePoint(c) == CHOOSE k \in DOMAIN CodePoints : CodePoints[k] = c

\* s < t on str.
RECURSIVE StrLess(_, _)
StrLess(s, t) ==
    IF t = <<>> THEN FALSE
    ELSE IF s = <<>> THEN TRUE
    ELSE IF s[1] # t[1] THEN CodePoint(s[1]) < CodePoint(t[1])
    ELSE StrLess(Tail(s), Tail(t))

\* sorted(col_data.unique().tolist())
RECURSIVE sorted(_)
sorted(S) ==
    IF S = {} THEN <<>>
    ELSE LET least == CHOOSE s \in S : \A t \in S \ {s} : StrLess(s, t)
         IN  <<least>> \o sorted(S \ {least})

\* How often x occurs in seq.
Occurrences(seq, x) == Cardinality({ i \in DOMAIN seq : seq[i] = x })

\* col_data[col_data.map(col_data.value_counts()) == 1]
once(texts) == SelectSeq(texts, LAMBDA t : Occurrences(texts, t) = 1)

\* col_data[col_data.str.contains(search_term, case=False, na=False)]
str_contains(texts, search_term) ==
    SelectSeq(texts, LAMBDA t : Contains(lower(t), lower(search_term)))

Texts(cells, dt) == [i \in DOMAIN cells |-> astype_str(cells[i], dt)]

\* col_data where is_string_dtype is called: the non-null cells (GEMScan), their
\* texts after the unique-only toggle (FULL_UPDATED), the column (FINAL).
string_test(v, cells, unique_only) ==
    IF v = "GEMScan" THEN is_string_dtype_outcomes(dtype(cells), dropna(cells))
    ELSE IF v = "FULL_UPDATED"
    THEN LET col_data == Texts(dropna(cells), dtype(cells))
             kept == IF unique_only THEN once(col_data) ELSE col_data
         IN  is_string_dtype_outcomes("object", [i \in DOMAIN kept |-> TextCell(kept[i])])
    ELSE is_string_dtype_outcomes(dtype(cells), cells)

\* The options of the multiselect of a column the test let in.
options(v, cells, search_term, unique_only) ==
    LET col_data == Texts(dropna(cells), dtype(cells))
        narrowed(t) == IF search_term # <<>> THEN str_contains(t, search_term) ELSE t
    IN  IF v = "GEMScan"
        THEN IF Types(dropna(cells)) \subseteq {"str"}
             THEN [raised |-> "none", unique_values |-> sorted(Range(col_data))]
             ELSE [raised |-> "TypeError", unique_values |-> <<>>]
        ELSE IF v = "FULL_UPDATED"
        THEN [raised |-> "none",
              unique_values |->
                  sorted(Range(narrowed(IF unique_only THEN once(col_data) ELSE col_data)))]
        ELSE LET vc == dropna(cells)
                 unique_vals == { vc[i].value : i \in { j \in DOMAIN vc :
                                     vc[j].type = "str" /\ Occurrences(vc, vc[j]) = 1 } }
                 kept == IF unique_only
                         THEN SelectSeq(col_data, LAMBDA t : t \in unique_vals)
                         ELSE col_data
             IN  [raised |-> "none", unique_values |-> sorted(Range(narrowed(kept)))]

\* One pass of the loop body for a column, is_string being what the test gave.
string_filter(v, cells, search_term, unique_only, is_string) ==
    IF is_string
    THEN [offered |-> TRUE] @@ options(v, cells, search_term, unique_only)
    ELSE [offered |-> FALSE, raised |-> "none", unique_values |-> <<>>]

Ga == <<"g", "a">>

SearchTerms == {<<>>, Ga, <<"A">>}

\* GEMScan has neither the search box nor the toggle.
StringFilterCalls ==
    { [fn |-> "string_filter", done |-> FALSE,
       args |-> [v |-> v, cells |-> cells, search_term |-> s, unique_only |-> u]] :
         v \in Variants, cells \in CellColumns, s \in SearchTerms, u \in BOOLEAN }
    \ { c \in [fn : {"string_filter"}, done : {FALSE},
               args : [v : {"GEMScan"}, cells : CellColumns,
                       search_term : SearchTerms, unique_only : BOOLEAN]] :
          c.args.search_term # <<>> \/ c.args.unique_only }

CallStringFilter ==
    /\ call.fn = "string_filter" /\ ~call.done
    /\ \E is_string \in string_test(call.args.v, call.args.cells, call.args.unique_only) :
          call' = [call EXCEPT !.done = TRUE] @@
                  [result |-> string_filter(call.args.v, call.args.cells,
                                            call.args.search_term, call.args.unique_only,
                                            is_string)]
    /\ UNCHANGED <<variant, workbook, widgets, page>>

StringFilterDone == call.fn = "string_filter" /\ call.done

\* The column has a non-null value and its non-null values are all text.
AllText(cells) == dropna(cells) # <<>> /\ Types(dropna(cells)) = {"str"}

\* The non-null values that pass the unique-only toggle and the search term.
Narrowed(cells, search_term, unique_only) ==
    { cells[i].value : i \in { j \in DOMAIN cells :
        /\ cells[j].type # "NaN"
        /\ unique_only => Occurrences(cells, cells[j]) = 1
        /\ Contains(lower(cells[j].value), lower(search_term)) } }

IsSorted(seq) == \A i, j \in DOMAIN seq : i < j => StrLess(seq[i], seq[j])

\* C15, first sentence: a set filter is offered exactly for the columns with a
\* non-null value whose non-null values are all text.
C15_OfferedExactlyForText ==
    StringFilterDone => (call.result.offered <=> AllText(call.args.cells))

\* C15, second sentence: the values offered for a column of text are its
\* distinct non-null values that pass the toggle and the search, sorted.
C15_CandidatesAreNarrowedValues ==
    (StringFilterDone /\ call.result.offered /\ AllText(call.args.cells)) =>
        /\ call.result.raised = "none"
        /\ IsSorted(call.result.unique_values)
        /\ Range(call.result.unique_values)
              = Narrowed(call.args.cells, call.args.search_term, call.args.unique_only)

\* C15: the set filter is offered exactly for the text columns, and its
\* candidates are the sorted distinct non-null values after narrowing.
C15_SetFilterOfferedForTextColumns ==
    C15_OfferedExactlyForText /\ C15_CandidatesAreNarrowedValues

\* C16: in a run with a set filter and a non-empty selection, the mask of the
\* set filter is false at every row whose cell in the filtered column is null,
\* in Match ANY mode and in Match ALL mode, whatever is selected.
C16_NullCellFailsTheSetFilter ==
    (variant \in {"GEMScan", "FULL_UPDATED"} /\ SetFilterActive /\ HasCond(TextCol)) =>
        \A i \in RowIds :
           page.df.rows[i].txt = NullText => ~CondOf(TextCol).mask[i]

(***************************************************************************)
(* GEMScan: the filters at their defaults, on tables whose numbers need not *)
(* be whole.  A number is held here as its count of tenths, so that int()  *)
(* has something to cut off.                                               *)
(***************************************************************************)
MaxDefaultRows == 2

Tenths == 10

Whole(n) == n * Tenths

\* int(x): the fraction is cut off, toward zero.
int(x) ==
    IF x >= 0 THEN (x \div Tenths) * Tenths
    ELSE 0 - (((0 - x) \div Tenths) * Tenths)

\* float(x) of a number of a float column.
float(x) == x

\* min_cap, max_cap = float(df[...].min()), float(df[...].max()): the default
\* of the capacity slider.
slider_cap(df) == <<float(CapDefault(df)[1]), float(CapDefault(df)[2])>>

\* min_year, max_year = int(year_col.min()), int(year_col.max()): the default
\* of the start-year slider.
slider_year(df) == <<int(YearDefault(df)[1]), int(YearDefault(df)[2])>>

\* The conditions of lines 82-94 with the sliders untouched, and the table
\* they leave under AND.
default_filter(df) ==
    LET cap == IF Has(df.columns, CapCol)
               THEN <<[filter |-> CapCol, mask |-> RangeMask(df, "cap", slider_cap(df))]>>
               ELSE <<>>
        year == IF Has(df.columns, YearCol) /\ NotNullNums(df, "year") # {}
                THEN <<[filter |-> YearCol, mask |-> RangeMask(df, "year", slider_year(df))]>>
                ELSE <<>>
    IN  filtered_df("GEMScan", df, cap \o year, "AND").index

NumberRow(cap, year) == [cap |-> cap, year |-> year, gem |-> NullText, txt |-> NullText]

NumberRowPool ==
    { NumberRow(cap, year) : cap \in {NaN, Whole(5), Whole(100)},
                             year \in {NaN, Whole(2014), Whole(2016), Whole(2016) + 5} }

\* The tables the filters see: "Start year" is always a column after the
\* coercion, "Capacity (MW)" is one when the sheet has it.
NumberTables ==
    { [columns |-> l, rows |-> [i \in DOMAIN rs |-> Project(l, rs[i])]] :
        l \in {<<CapCol, YearCol>>, <<YearCol>>},
        rs \in UNION { [1..n -> NumberRowPool] : n \in 0..MaxDefaultRows } }

DefaultFilterCalls ==
    { [fn |-> "default_filter", args |-> df, done |-> FALSE] : df \in NumberTables }

CallDefaultFilter ==
    /\ call.fn = "default_filter" /\ ~call.done
    /\ call' = [call EXCEPT !.done = TRUE] @@ [result |-> default_filter(call.args)]
    /\ UNCHANGED <<variant, workbook, widgets, page>>

\* The rows of df with a capacity, when the column is there, and with a start
\* year, when the column has one at all.
WithValues(df) ==
    Select([i \in DOMAIN df.rows |->
               /\ Has(df.columns, CapCol) => df.rows[i].cap # NaN
               /\ NotNullNums(df, "year") # {} => df.rows[i].year # NaN],
           Len(df.rows))

\* C17: with the filter widgets at their defaults and the mode AND, the
\* filtered table is exactly the rows with a non-null "Capacity (MW)" cell
\* (when the column is present) and a non-null "Start year" cell (when the
\* column has a non-null value), in the order of the table; it is the whole
\* table exactly when no such cell is null.
C17_DefaultsKeepTheRowsWithValues ==
    (call.fn = "default_filter" /\ call.done) =>
        /\ call.result = WithValues(call.args)
        /\ call.result = AllRows(call.args) <=> WithValues(call.args) = AllRows(call.args)

(***************************************************************************)
(* The specification of the helper calls: no run of the page takes place, a *)
(* call is drawn with its arguments and the helper is applied to them.     *)
(***************************************************************************)
CallsInit ==
    /\ variant = "GEMScan"
    /\ workbook = Unreadable
    /\ widgets = Defaults(workbook)
    /\ page = Blank(widgets)
    /\ \/ call \in SheetCalls
       \/ call \in LabelCalls
       \/ call \in CumulativeCalls
       \/ call \in StringFilterCalls
       \/ call \in DefaultFilterCalls

CallsNext ==
    \/ CallGetValidSheetNames
    \/ CallColumnLabels
    \/ CallCumulativeByType
    \/ CallStringFilter
    \/ CallDefaultFilter

Calls == CallsInit /\ [][CallsNext]_vars

====
